---- MODULE Spec2Model ----
(***************************************************************************)
(* Model of the suggestion lifecycle of the VS Code extension:             *)
(*   vscode-extension/src/services/suggestionManager.ts (SuggestionManager)*)
(*   vscode-extension/src/extension.ts (handleAICommand, the commands)     *)
(* Every command invocation is an async task; a task is suspended at each  *)
(* await and other tasks, timers and the user run in between.  One action  *)
(* models the completion of the awaited host call together with the        *)
(* synchronous code that follows it up to the next await.                  *)
(* Text is a sequence of characters, a range is a pair <<s, e>> of 0-based *)
(* offsets, half open.                                                     *)
(***************************************************************************)
EXTENDS Integers, Sequences, FiniteSets, TLC

\* ------------------------------------------------------------- bounds
MaxTasks == 3
MaxExternalEdits == 1
MaxDisposals == 2

\* ------------------------------------------------------------- inputs
Docs == {"A", "B"}
InitText == [d \in Docs |-> IF d = "A" THEN <<1, 2, 3>> ELSE <<4, 5>>]
\* what the user may have selected when a command is invoked
Selections == {<<0, 0>>, <<0, 2>>, <<1, 3>>}
\* what parseResponse returns for a selected text (AIResponse: code and
\* fixed_code are the backend's fixed_code; explanation is set for the
\* actions document, test and refactor, and absent for fix)
GatewayResult(selText) ==
    IF Len(selText) > 0 /\ selText[1] % 2 = 1
    THEN [code |-> <<7>>, fixed_code |-> <<7>>, explanation |-> "Code refactored"]
    ELSE [code |-> <<8, 9>>, fixed_code |-> <<8, 9>>, explanation |-> ""]
\* what an external edit types at the start of a document
TypedText == <<0>>

NoSugg == [sid |-> 0]
NoDecor == <<>>
NoRange == <<0, 0>>

VARIABLES
    text,               \* document uri -> its text in the host
    disk,               \* document uri -> its saved text
    editors,            \* the TextEditor objects ever created: doc, open, decor
    activeEditor,       \* vscode.window.activeTextEditor (0: none on a document)
    diffView,           \* the suggestion whose diff tab is open (0: none)
    fallbackShown,      \* what the 'AI Suggestion' output channel shows
    currentSuggestion,  \* SuggestionManager.currentSuggestion
    flag,               \* context key aiCodeAssistant.hasSuggestion
    showInlineDecorations, \* configuration aiCodeAssistant.showInlineDecorations
    autoSave,           \* configuration aiCodeAssistant.autoSave
    tasks,              \* the command invocations: position and locals
    timers,             \* pending setTimeout(highlight, 500) callbacks, in order
    presented,          \* history: the arguments of every showSuggestion call
    edits,              \* history: every edit applied through TextEditor.edit
    saves,              \* history: every document.save() that was carried out
    cleanedSince,       \* history: cleanup() ran since the last showSuggestion
    externalEdits,      \* how many external edits happened
    decorationType      \* SuggestionManager.decorationType: disposed or not,
                        \* history: dispose() calls, use after the disposal

vars == <<text, disk, editors, activeEditor, diffView, fallbackShown,
          currentSuggestion, flag, showInlineDecorations, autoSave, tasks,
          timers, presented, edits, saves, cleanedSince, externalEdits, decorationType>>

\* ------------------------------------------------------------- helpers
Min(a, b) == IF a < b THEN a ELSE b

\* document.getText(range): the host clamps the range to the document
GetText(txt, r) ==
    SubSeq(txt, Min(r[1], Len(txt)) + 1, Min(r[2], Len(txt)))

ReplaceRange_off(txt, r, new) ==
    SubSeq(txt, 1, Min(r[1], Len(txt))) \o new
        \o SubSeq(txt, Min(r[2], Len(txt)), Len(txt))

\* editBuilder.replace(range, newCode) applied to the document
ReplaceRange(txt, r, new) ==
    SubSeq(txt, 1, Min(r[1], Len(txt))) \o new
        \o SubSeq(txt, Min(r[2], Len(txt)) + 1, Len(txt))

\* visibleTextEditors.find(e => e.document.uri === uri): 0 when none
FindVisible(eds, d) ==
    IF \E i \in 1..Len(eds) : eds[i].open /\ eds[i].doc = d
    THEN CHOOSE i \in 1..Len(eds) :
            /\ eds[i].open /\ eds[i].doc = d
            /\ \A j \in 1..(i - 1) : ~(eds[j].open /\ eds[j].doc = d)
    ELSE 0

\* editor.setDecorations(decorationType, ranges) on a TextEditor object;
\* a disposed (closed) editor takes no decoration
SetDecorations(eds, e, decor) ==
    IF e \in 1..Len(eds) /\ eds[e].open
    THEN [eds EXCEPT ![e].decor = decor]
    ELSE eds

\* workbench.action.closeAllEditors: every editor object is disposed
CloseAll(eds) == [i \in 1..Len(eds) |-> [eds[i] EXCEPT !.open = FALSE, !.decor = NoDecor]]

\* window.showTextDocument(document): the editor showing it, a new one if none
ShowDocEditors(eds, d) ==
    IF FindVisible(eds, d) # 0 THEN eds
    ELSE Append(eds, [doc |-> d, open |-> TRUE, decor |-> NoDecor])
ShowDocIndex(eds, d) ==
    IF FindVisible(eds, d) # 0 THEN FindVisible(eds, d) ELSE Len(eds) + 1

ClearDecorations_none(eds, cur) == eds

\* SuggestionManager.clearDecorations
ClearDecorations(eds, cur) ==
    IF cur # NoSugg THEN SetDecorations(eds, cur.editor, NoDecor) ELSE eds


\* currentSuggestion = value: the store of showSuggestion, lines 33-38
StoreSuggestion_keep(cur, new) == IF cur # NoSugg THEN cur ELSE new

StoreSuggestion(cur, new) == new

\* ------------------------------------------------------------- tasks
NewTask(kind, pc) ==
    [kind |-> kind, pc |-> pc, editor |-> 0, doc |-> "A", range |-> NoRange,
     newCode |-> <<>>, explanation |-> "", selText |-> <<>>, sid |-> 0,
     msgs |-> <<>>, overlap |-> {}, startSid |-> 0, newEditor |-> 0,
     failedAt |-> "", saveResult |-> "", surfaceOpenAtStart |-> TRUE,
     pendingAtReturn |-> FALSE, decorAtReturn |-> FALSE]

TaskIds == 1..Len(tasks)
Running(t) == tasks[t].pc # "done"
\* an acceptSuggestion or rejectSuggestion call is suspended at an await
MidFlight == \E t \in TaskIds : tasks[t].kind \in {"accept", "reject"} /\ Running(t)
\* which of the two kinds of call are
MidFlightKinds ==
    {k \in {"accept", "reject"} : \E t \in TaskIds : tasks[t].kind = k /\ Running(t)}

Say(t, m) == Append(tasks[t].msgs, m)

\* result.code || result.fixed_code || selectedText (extension.ts:150)
ResultCode(res, selText) ==
    IF res.code # <<>> THEN res.code
    ELSE IF res.fixed_code # <<>> THEN res.fixed_code ELSE selText

\* result.explanation || 'AI-generated code' (extension.ts:151)
ResultExplanation(res) ==
    IF res.explanation # "" THEN res.explanation ELSE "AI-generated code"

Init ==
    /\ text = InitText
    /\ disk = InitText
    /\ editors = << [doc |-> "A", open |-> TRUE, decor |-> NoDecor],
                    [doc |-> "B", open |-> TRUE, decor |-> NoDecor] >>
    /\ activeEditor = 1
    /\ diffView = 0
    /\ fallbackShown = <<>>
    /\ currentSuggestion = NoSugg
    /\ flag = FALSE
    /\ showInlineDecorations \in BOOLEAN
    /\ autoSave \in BOOLEAN
    /\ tasks = <<>>
    /\ timers = <<>>
    /\ presented = <<>>
    /\ edits = <<>>
    /\ saves = <<>>
    /\ cleanedSince = FALSE
    /\ externalEdits = 0
    /\ decorationType = [disposed |-> FALSE, disposeCalls |-> 0,
                         usedAfterDispose |-> FALSE]

config == <<showInlineDecorations, autoSave>>
host == <<text, disk, editors, activeEditor, diffView, fallbackShown>>
manager == <<currentSuggestion, flag, cleanedSince>>
history == <<presented, edits, saves>>

\* ---------------------------------------------- handleAICommand / present
\* extension.ts:108-132: the user invokes a command with editor e in front
\* (0: no editor on a document); the command reads the active editor and the
\* selection, then suspends on aiService.processCode
HandleAICommand ==
    /\ Len(tasks) < MaxTasks
    /\ \E e \in {0} \cup {i \in 1..Len(editors) : editors[i].open} :
         /\ activeEditor' = e
         /\ IF e = 0
            THEN tasks' = Append(tasks, [NewTask("request", "done") EXCEPT
                                        !.msgs = <<"error:No active editor found">>])
            ELSE \E sel \in Selections :
               LET d == editors[e].doc IN
               /\ sel[2] <= Len(text[d])
               /\ IF sel[1] = sel[2]
                  THEN tasks' = Append(tasks, [NewTask("request", "done") EXCEPT
                                        !.msgs = <<"warning:Please select code first">>])
                  ELSE tasks' = Append(tasks, [NewTask("request", "gateway") EXCEPT
                                        !.editor = e, !.doc = d,
                                        !.range = sel,
                                        !.selText = GetText(text[d], sel)])
    /\ UNCHANGED <<text, disk, editors, diffView, fallbackShown, manager, config,
                   timers, history, externalEdits, decorationType>>

\* a command that, when the gateway call fails, presents the selected text
\* as the suggestion before it reports the error
GatewayFails_presents(t) ==
    /\ tasks[t].kind = "request" /\ tasks[t].pc = "gateway"
    /\ LET new == [sid |-> Len(presented) + 1, editor |-> tasks[t].editor,
                   doc |-> tasks[t].doc, range |-> tasks[t].range,
                   newCode |-> tasks[t].selText, explanation |-> "AI-generated code"]
       IN
       /\ currentSuggestion' = new
       /\ flag' = TRUE
       /\ cleanedSince' = FALSE
       /\ presented' = Append(presented,
              [doc |-> new.doc, range |-> new.range, newCode |-> new.newCode,
               explanation |-> new.explanation, selText |-> tasks[t].selText,
               midFlight |-> MidFlight])
    /\ tasks' = [tasks EXCEPT ![t].pc = "done", ![t].msgs = Say(t, "error:AI Error")]
    /\ UNCHANGED <<host, config, timers, edits, saves, externalEdits, decorationType>>

\* extension.ts:158-160: processCode threw (aiService.ts:57-67)
GatewayFails(t) ==
    /\ tasks[t].kind = "request" /\ tasks[t].pc = "gateway"
    /\ tasks' = [tasks EXCEPT ![t].pc = "done", ![t].msgs = Say(t, "error:AI Error")]
    /\ UNCHANGED <<host, manager, config, timers, history, externalEdits, decorationType>>

\* extension.ts:134-136: the user cancelled the progress meanwhile
GatewayCancelled(t) ==
    /\ tasks[t].kind = "request" /\ tasks[t].pc = "gateway"
    /\ tasks' = [tasks EXCEPT ![t].pc = "done"]
    /\ UNCHANGED <<host, manager, config, timers, history, externalEdits, decorationType>>

\* extension.ts:132-152 then showSuggestion, suggestionManager.ts:23-44, and
\* showDiff up to its await of vscode.diff (153-191)
ShowSuggestion(t) ==
    /\ tasks[t].kind = "request" /\ tasks[t].pc = "gateway"
    /\ LET res == GatewayResult(tasks[t].selText) IN
         LET code == ResultCode(res, tasks[t].selText)
             expl == ResultExplanation(res)
             sid  == Len(presented) + 1
             new  == [sid |-> sid, editor |-> tasks[t].editor, doc |-> tasks[t].doc,
                      range |-> tasks[t].range, newCode |-> code,
                      explanation |-> expl]
         IN
         /\ editors' = ClearDecorations(editors, currentSuggestion)
         /\ currentSuggestion' = StoreSuggestion(currentSuggestion, new)
         /\ flag' = TRUE
         /\ cleanedSince' = FALSE
         /\ presented' = Append(presented,
                [doc |-> new.doc, range |-> new.range, newCode |-> code,
                 explanation |-> expl, selText |-> tasks[t].selText,
                 midFlight |-> MidFlight])
         /\ tasks' = [tasks EXCEPT ![t].pc = "diff", ![t].sid = sid,
                                   ![t].newCode = code, ![t].explanation = expl,
                                   ![t].overlap = MidFlightKinds]
    /\ UNCHANGED <<text, disk, activeEditor, diffView, fallbackShown, config,
                   timers, edits, saves, externalEdits, decorationType>>

\* a showSuggestion that defers the highlight whatever the setting says
ShowDiffDone_alwaysHighlights(t) ==
    /\ tasks[t].kind = "request" /\ tasks[t].pc = "diff"
    /\ \E ok \in BOOLEAN :
         IF ok
         THEN /\ diffView' = tasks[t].sid
              /\ activeEditor' = 0
              /\ UNCHANGED fallbackShown
              /\ tasks' = [tasks EXCEPT ![t].pc = "done",
                    ![t].msgs = tasks[t].msgs \o <<"info:prompt", "info:complete">>]
         ELSE /\ fallbackShown' = tasks[t].newCode
              /\ UNCHANGED <<diffView, activeEditor>>
              /\ tasks' = [tasks EXCEPT ![t].pc = "done",
                    ![t].msgs = tasks[t].msgs \o
                        <<"output:AI Suggestion", "info:prompt", "info:complete">>]
    /\ timers' = Append(timers, [doc |-> tasks[t].doc, range |-> tasks[t].range,
                                 sid |-> tasks[t].sid])
    /\ UNCHANGED <<text, disk, editors, manager, config, history, externalEdits,
                   decorationType>>

\* a showDiff without its catch: the failure of the diff command reaches
\* the catch of handleAICommand and nothing shows the replacement
ShowDiffDone_throws(t) ==
    /\ tasks[t].kind = "request" /\ tasks[t].pc = "diff"
    /\ \E ok \in BOOLEAN :
         IF ok
         THEN /\ diffView' = tasks[t].sid
              /\ activeEditor' = 0
              /\ tasks' = [tasks EXCEPT ![t].pc = "done",
                    ![t].msgs = tasks[t].msgs \o <<"info:prompt", "info:complete">>]
              /\ timers' = IF showInlineDecorations
                           THEN Append(timers, [doc |-> tasks[t].doc,
                                                range |-> tasks[t].range,
                                                sid |-> tasks[t].sid])
                           ELSE timers
         ELSE /\ tasks' = [tasks EXCEPT ![t].pc = "done",
                                        ![t].msgs = Say(t, "error:AI Error")]
              /\ UNCHANGED <<diffView, activeEditor, timers>>
    /\ UNCHANGED <<text, disk, editors, fallbackShown, manager, config, history,
                   externalEdits, decorationType>>

\* suggestionManager.ts:185-201 then 46-74 and extension.ts:155-156: the diff
\* opened, or it failed and the output channel shows the code; the prompt is
\* shown, the highlight is deferred, the command reports completion
ShowDiffDone(t) ==
    /\ tasks[t].kind = "request" /\ tasks[t].pc = "diff"
    /\ \E ok \in BOOLEAN :
         IF ok
         THEN /\ diffView' = tasks[t].sid
              /\ activeEditor' = 0
              /\ UNCHANGED fallbackShown
              /\ tasks' = [tasks EXCEPT ![t].pc = "done",
                    ![t].msgs = tasks[t].msgs \o <<"info:prompt", "info:complete">>]
         ELSE /\ fallbackShown' = tasks[t].newCode
              /\ UNCHANGED <<diffView, activeEditor>>
              /\ tasks' = [tasks EXCEPT ![t].pc = "done",
                    ![t].msgs = tasks[t].msgs \o
                        <<"output:AI Suggestion", "info:prompt", "info:complete">>]
    /\ timers' = IF showInlineDecorations
                 THEN Append(timers, [doc |-> tasks[t].doc, range |-> tasks[t].range,
                                      sid |-> tasks[t].sid])
                 ELSE timers
    /\ UNCHANGED <<text, disk, editors, manager, config, history, externalEdits, decorationType>>

\* a deferred callback that also expires the suggestion
HighlightTimer_expires ==
    /\ timers # <<>>
    /\ timers' = Tail(timers)
    /\ currentSuggestion' = NoSugg
    /\ flag' = FALSE
    /\ UNCHANGED <<text, disk, editors, activeEditor, diffView, fallbackShown,
                   cleanedSince, config, tasks, history, externalEdits,
                   decorationType>>

\* suggestionManager.ts:61-69: the deferred highlight runs
HighlightTimer ==
    /\ timers # <<>>
    /\ LET tm == Head(timers)
           e  == FindVisible(editors, tm.doc)
       IN editors' = IF e # 0
                     THEN SetDecorations(editors, e, [range |-> tm.range, sid |-> tm.sid])
                     ELSE editors
    /\ timers' = Tail(timers)
    /\ UNCHANGED <<text, disk, activeEditor, diffView, fallbackShown, manager,
                   config, tasks, history, externalEdits, decorationType>>


\* ------------------------------------------------------------ accept
\* suggestionManager.ts:116-122: the catch block reports the error and
\* suspends on reopening the document; cleanup() is not called here
AcceptCatch(t, cause) ==
    [tasks EXCEPT ![t].pc = "catch", ![t].failedAt = cause,
                  ![t].msgs = Say(t, "error:Error applying suggestion")]

\* suggestionManager.ts:221-225 cleanup(), on the editors
CleanupEditors(eds, cur) == ClearDecorations(eds, cur)

\* a cleanup that forgets the context key
AcceptFinish_keepsFlag(t, saved) ==
    /\ tasks' = [tasks EXCEPT ![t].pc = "done",
                              ![t].msgs = Say(t, "info:accepted"),
                              ![t].saveResult = saved,
                              ![t].pendingAtReturn = FALSE]
    /\ editors' = CleanupEditors(editors, currentSuggestion)
    /\ currentSuggestion' = NoSugg
    /\ flag' = flag
    /\ cleanedSince' = TRUE

\* suggestionManager.ts:113-114: success is reported, then cleanup()
AcceptFinish(t, saved) ==
    /\ tasks' = [tasks EXCEPT ![t].pc = "done",
                              ![t].msgs = Say(t, "info:accepted"),
                              ![t].saveResult = saved,
                              ![t].pendingAtReturn = FALSE]
    /\ editors' = CleanupEditors(editors, currentSuggestion)
    /\ currentSuggestion' = NoSugg
    /\ flag' = FALSE
    /\ cleanedSince' = TRUE

\* an accept that closes the views before it looks for a suggestion
AcceptSuggestion_closesFirst ==
    /\ Len(tasks) < MaxTasks
    /\ tasks' = Append(tasks, [NewTask("accept", "done") EXCEPT
                                !.msgs = <<"warning:No suggestion to accept">>,
                                !.overlap = MidFlightKinds,
                                !.startSid = Len(presented)])
    /\ editors' = CloseAll(editors)
    /\ activeEditor' = 0
    /\ UNCHANGED <<text, disk, diffView, fallbackShown, manager, config, timers,
                   history, externalEdits, decorationType>>

\* suggestionManager.ts:76-86 (extension.ts:95-97): the command starts
AcceptSuggestion ==
    /\ Len(tasks) < MaxTasks
    /\ IF currentSuggestion = NoSugg
       THEN tasks' = Append(tasks, [NewTask("accept", "done") EXCEPT
                                !.msgs = <<"warning:No suggestion to accept">>,
                                !.overlap = MidFlightKinds,
                                !.startSid = Len(presented)])
       ELSE tasks' = Append(tasks, [NewTask("accept", "close") EXCEPT
                                !.editor = currentSuggestion.editor,
                                !.doc = currentSuggestion.doc,
                                !.range = currentSuggestion.range,
                                !.newCode = currentSuggestion.newCode,
                                !.sid = currentSuggestion.sid,
                                !.overlap = MidFlightKinds,
                                !.startSid = Len(presented),
                                !.surfaceOpenAtStart =
                                    (FindVisible(editors, currentSuggestion.doc) # 0)])
    /\ UNCHANGED <<host, manager, config, timers, history, externalEdits, decorationType>>

\* an accept that does not close the editors, so that showTextDocument
\* hands back the editor that already shows the document
AcceptClosed_skips(t) ==
    /\ tasks[t].kind = "accept" /\ tasks[t].pc = "close"
    /\ tasks' = [tasks EXCEPT ![t].pc = "show"]
    /\ UNCHANGED <<host, manager, config, timers, history, externalEdits,
                   decorationType>>

\* suggestionManager.ts:86-89: closeAllEditors completed (or threw)
AcceptClosed(t) ==
    /\ tasks[t].kind = "accept" /\ tasks[t].pc = "close"
    /\ \E ok \in BOOLEAN :
         IF ok
         THEN /\ editors' = CloseAll(editors)
              /\ activeEditor' = 0
              /\ diffView' = 0
              /\ tasks' = [tasks EXCEPT ![t].pc = "show"]
         ELSE /\ tasks' = AcceptCatch(t, "close")
              /\ UNCHANGED <<editors, activeEditor, diffView>>
    /\ UNCHANGED <<text, disk, fallbackShown, manager, config, timers, history,
                   externalEdits, decorationType>>

\* an accept that, when the document cannot be opened, falls back to the
\* editor cached at presentation and goes on to the edit
AcceptShown_fallsBack(t) ==
    /\ tasks[t].kind = "accept" /\ tasks[t].pc = "show"
    /\ tasks' = [tasks EXCEPT ![t].pc = "edit", ![t].failedAt = "open",
                              ![t].newEditor = ShowDocIndex(editors, tasks[t].doc)]
    /\ editors' = ShowDocEditors(editors, tasks[t].doc)
    /\ activeEditor' = ShowDocIndex(editors, tasks[t].doc)
    /\ UNCHANGED <<text, disk, diffView, fallbackShown, manager, config, timers,
                   history, externalEdits, decorationType>>

\* suggestionManager.ts:89-99: the 100 ms delay elapsed, openTextDocument(uri)
\* resolved and showTextDocument(document) resolved, or one of the two threw
\* (the delay and openTextDocument touch nothing but the task itself)
AcceptShown(t) ==
    /\ tasks[t].kind = "accept" /\ tasks[t].pc = "show"
    /\ \E outcome \in {"shown", "open", "show"} :
         IF outcome = "shown"
         THEN /\ editors' = ShowDocEditors(editors, tasks[t].doc)
              /\ activeEditor' = ShowDocIndex(editors, tasks[t].doc)
              /\ tasks' = [tasks EXCEPT ![t].pc = "edit",
                              ![t].newEditor = ShowDocIndex(editors, tasks[t].doc)]
         ELSE /\ tasks' = AcceptCatch(t, outcome)
              /\ UNCHANGED <<editors, activeEditor>>
    /\ UNCHANGED <<text, disk, diffView, fallbackShown, manager, config, timers,
                   history, externalEdits, decorationType>>

\* an accept that reads the document from this.currentSuggestion again after
\* its awaits instead of using the locals it captured when it started
AcceptEdited_rereads(t) ==
    /\ tasks[t].kind = "accept" /\ tasks[t].pc = "edit"
    /\ \E success \in BOOLEAN :
         IF success /\ editors[tasks[t].newEditor].open
         THEN LET d      == IF currentSuggestion # NoSugg THEN currentSuggestion.doc
                                                         ELSE tasks[t].doc
                  before == text[d]
                  after  == ReplaceRange(before, tasks[t].range, tasks[t].newCode)
              IN
              /\ text' = [text EXCEPT ![d] = after]
              /\ edits' = Append(edits,
                    [task |-> t, sid |-> tasks[t].sid, doc |-> d,
                     range |-> tasks[t].range, newCode |-> tasks[t].newCode,
                     before |-> before, after |-> after])
              /\ IF autoSave
                 THEN /\ tasks' = [tasks EXCEPT ![t].pc = "save"]
                      /\ UNCHANGED <<editors, manager>>
                 ELSE AcceptFinish(t, "")
         ELSE /\ tasks' = AcceptCatch(t, IF editors[tasks[t].newEditor].open
                                           THEN "edit" ELSE "editorClosed")
              /\ UNCHANGED <<text, edits, editors, manager>>
    /\ UNCHANGED <<disk, activeEditor, diffView, fallbackShown, config, timers,
                   presented, saves, externalEdits, decorationType>>

\* an accept that saves whatever the autoSave setting says
AcceptEdited_alwaysSaves(t) ==
    /\ tasks[t].kind = "accept" /\ tasks[t].pc = "edit"
    /\ \E success \in BOOLEAN :
         IF success /\ editors[tasks[t].newEditor].open
         THEN LET d      == tasks[t].doc
                  before == text[d]
                  after  == ReplaceRange(before, tasks[t].range, tasks[t].newCode)
              IN
              /\ text' = [text EXCEPT ![d] = after]
              /\ edits' = Append(edits,
                    [task |-> t, sid |-> tasks[t].sid, doc |-> d,
                     range |-> tasks[t].range, newCode |-> tasks[t].newCode,
                     before |-> before, after |-> after])
              /\ tasks' = [tasks EXCEPT ![t].pc = "save"]
         ELSE /\ tasks' = AcceptCatch(t, IF editors[tasks[t].newEditor].open
                                           THEN "edit" ELSE "editorClosed")
              /\ UNCHANGED <<text, edits>>
    /\ UNCHANGED <<disk, editors, activeEditor, diffView, fallbackShown, manager,
                   config, timers, presented, saves, externalEdits, decorationType>>

\* an accept that does not look at the result of the edit: on a reported
\* failure it goes on to the save and to the success message
AcceptEdited_unchecked(t) ==
    /\ tasks[t].kind = "accept" /\ tasks[t].pc = "edit"
    /\ editors[tasks[t].newEditor].open
    /\ IF autoSave
       THEN /\ tasks' = [tasks EXCEPT ![t].pc = "save", ![t].failedAt = "edit"]
            /\ UNCHANGED <<editors, manager>>
       ELSE /\ tasks' = [tasks EXCEPT ![t].pc = "done", ![t].failedAt = "edit",
                                      ![t].msgs = Say(t, "info:accepted")]
            /\ editors' = CleanupEditors(editors, currentSuggestion)
            /\ currentSuggestion' = NoSugg
            /\ flag' = FALSE
            /\ cleanedSince' = TRUE
    /\ UNCHANGED <<text, disk, activeEditor, diffView, fallbackShown, config, timers,
                   history, externalEdits, decorationType>>

\* an accept that edits through the editor cached at presentation instead
\* of the one it has just reopened
AcceptEdited_cached(t) ==
    /\ tasks[t].kind = "accept" /\ tasks[t].pc = "edit"
    /\ \E success \in BOOLEAN :
         IF success /\ editors[tasks[t].editor].open
         THEN LET d      == tasks[t].doc
                  before == text[d]
                  after  == ReplaceRange(before, tasks[t].range, tasks[t].newCode)
              IN
              /\ text' = [text EXCEPT ![d] = after]
              /\ edits' = Append(edits,
                    [task |-> t, sid |-> tasks[t].sid, doc |-> d,
                     range |-> tasks[t].range, newCode |-> tasks[t].newCode,
                     before |-> before, after |-> after])
              /\ IF autoSave
                 THEN /\ tasks' = [tasks EXCEPT ![t].pc = "save"]
                      /\ UNCHANGED <<editors, manager>>
                 ELSE AcceptFinish(t, "")
         ELSE /\ tasks' = AcceptCatch(t, IF editors[tasks[t].editor].open
                                           THEN "edit" ELSE "editorClosed")
              /\ UNCHANGED <<text, edits, editors, manager>>
    /\ UNCHANGED <<disk, activeEditor, diffView, fallbackShown, config, timers,
                   presented, saves, externalEdits, decorationType>>

\* suggestionManager.ts:99-111: newEditor.edit resolved: the host applied the
\* replacement, or reported failure (success false), or threw because the
\* editor it was called on had been closed meanwhile
AcceptEdited(t) ==
    /\ tasks[t].kind = "accept" /\ tasks[t].pc = "edit"
    /\ \E success \in BOOLEAN :
         IF success /\ editors[tasks[t].newEditor].open
         THEN LET d      == tasks[t].doc
                  before == text[d]
                  after  == ReplaceRange(before, tasks[t].range, tasks[t].newCode)
              IN
              /\ text' = [text EXCEPT ![d] = after]
              /\ edits' = Append(edits,
                    [task |-> t, sid |-> tasks[t].sid, doc |-> d,
                     range |-> tasks[t].range, newCode |-> tasks[t].newCode,
                     before |-> before, after |-> after])
              /\ IF autoSave
                 THEN /\ tasks' = [tasks EXCEPT ![t].pc = "save"]
                      /\ UNCHANGED <<editors, manager>>
                 ELSE AcceptFinish(t, "")
         ELSE /\ tasks' = AcceptCatch(t, IF editors[tasks[t].newEditor].open
                                           THEN "edit" ELSE "editorClosed")
              /\ UNCHANGED <<text, edits, editors, manager>>
    /\ UNCHANGED <<disk, activeEditor, diffView, fallbackShown, config, timers,
                   presented, saves, externalEdits, decorationType>>

\* suggestionManager.ts:110-114: document.save() resolved true or false, or threw
AcceptSaved(t) ==
    /\ tasks[t].kind = "accept" /\ tasks[t].pc = "save"
    /\ \E outcome \in {"saved", "notSaved", "threw"} :
         CASE outcome = "saved" ->
                /\ disk' = [disk EXCEPT ![tasks[t].doc] = text[tasks[t].doc]]
                /\ saves' = Append(saves, [task |-> t, doc |-> tasks[t].doc])
                /\ AcceptFinish(t, "saved")
           [] outcome = "notSaved" ->
                /\ AcceptFinish(t, "notSaved")
                /\ UNCHANGED <<disk, saves>>
           [] outcome = "threw" ->
                /\ tasks' = [AcceptCatch(t, "save") EXCEPT ![t].saveResult = "threw"]
                /\ UNCHANGED <<disk, saves, editors, manager>>
    /\ UNCHANGED <<text, activeEditor, diffView, fallbackShown, config, timers,
                   presented, edits, externalEdits, decorationType>>

\* suggestionManager.ts:120-128: the catch block's openTextDocument and
\* showTextDocument resolved, or one of them threw; the call returns
AcceptCatchShown(t) ==
    /\ tasks[t].kind = "accept" /\ tasks[t].pc = "catch"
    /\ \E ok \in BOOLEAN :
         IF ok
         THEN /\ editors' = ShowDocEditors(editors, tasks[t].doc)
              /\ activeEditor' = ShowDocIndex(editors, tasks[t].doc)
         ELSE UNCHANGED <<editors, activeEditor>>
    /\ tasks' = [tasks EXCEPT ![t].pc = "done",
                              ![t].pendingAtReturn = (currentSuggestion # NoSugg \/ flag)]
    /\ UNCHANGED <<text, disk, diffView, fallbackShown, manager, config, timers,
                   history, externalEdits, decorationType>>


\* ------------------------------------------------------------ reject
\* suggestionManager.ts:148-150: finally { this.cleanup() }, on editors eds
RejectCleanup(t, eds, said) ==
    /\ editors' = CleanupEditors(eds, currentSuggestion)
    /\ currentSuggestion' = NoSugg
    /\ flag' = FALSE
    /\ cleanedSince' = TRUE
    /\ tasks' = [tasks EXCEPT ![t].pc = "done", ![t].msgs = tasks[t].msgs \o said,
                    ![t].decorAtReturn =
                        LET left == CleanupEditors(eds, currentSuggestion) IN
                        \E e \in 1..Len(left) :
                            /\ left[e].decor # NoDecor
                            /\ left[e].decor.sid = tasks[t].sid]

\* suggestionManager.ts:130-139 (extension.ts:102-104): the command starts
RejectSuggestion ==
    /\ Len(tasks) < MaxTasks
    /\ IF currentSuggestion = NoSugg
       THEN tasks' = Append(tasks, [NewTask("reject", "done") EXCEPT
                                !.overlap = MidFlightKinds,
                                !.startSid = Len(presented)])
       ELSE tasks' = Append(tasks, [NewTask("reject", "close") EXCEPT
                                !.editor = currentSuggestion.editor,
                                !.doc = currentSuggestion.doc,
                                !.sid = currentSuggestion.sid,
                                !.overlap = MidFlightKinds,
                                !.startSid = Len(presented)])
    /\ UNCHANGED <<host, manager, config, timers, history, externalEdits, decorationType>>

\* suggestionManager.ts:139-142: closeAllEditors completed (or threw)
RejectClosed(t) ==
    /\ tasks[t].kind = "reject" /\ tasks[t].pc = "close"
    /\ \E ok \in BOOLEAN :
         IF ok
         THEN /\ editors' = CloseAll(editors)
              /\ activeEditor' = 0
              /\ diffView' = 0
              /\ tasks' = [tasks EXCEPT ![t].pc = "show"]
              /\ UNCHANGED manager
         ELSE /\ RejectCleanup(t, editors, <<>>)
              /\ UNCHANGED <<activeEditor, diffView>>
    /\ UNCHANGED <<text, disk, fallbackShown, config, timers, history, externalEdits, decorationType>>

RejectShown_edits(t) ==
    /\ tasks[t].kind = "reject" /\ tasks[t].pc = "show"
    /\ RejectCleanup(t, ShowDocEditors(editors, tasks[t].doc), <<"info:rejected">>)
    /\ activeEditor' = ShowDocIndex(editors, tasks[t].doc)
    /\ text' = [text EXCEPT ![tasks[t].doc] = <<>>]
    /\ UNCHANGED <<disk, diffView, fallbackShown, config, timers, history,
                   externalEdits, decorationType>>

\* suggestionManager.ts:142-150: openTextDocument and showTextDocument resolved
\* and the rejection is reported, or one of them threw; cleanup() runs on
\* every path
RejectShown(t) ==
    /\ tasks[t].kind = "reject" /\ tasks[t].pc = "show"
    /\ \E ok \in BOOLEAN :
         IF ok
         THEN /\ RejectCleanup(t, ShowDocEditors(editors, tasks[t].doc),
                               <<"info:rejected">>)
              /\ activeEditor' = ShowDocIndex(editors, tasks[t].doc)
         ELSE /\ RejectCleanup(t, editors, <<>>)
              /\ UNCHANGED activeEditor
    /\ UNCHANGED <<text, disk, diffView, fallbackShown, config, timers, history,
                   externalEdits, decorationType>>

\* ------------------------------------------------------- the environment
\* the user closes the editor of the document the pending suggestion is
\* for: its TextEditor object is disposed
UserCloseEditor(e) ==
    /\ e \in 1..Len(editors) /\ editors[e].open
    /\ currentSuggestion # NoSugg /\ editors[e].doc = currentSuggestion.doc
    /\ editors' = [editors EXCEPT ![e].open = FALSE, ![e].decor = NoDecor]
    /\ activeEditor' = IF activeEditor = e THEN 0 ELSE activeEditor
    /\ UNCHANGED <<text, disk, diffView, fallbackShown, manager, config, tasks,
                   timers, history, externalEdits, decorationType>>

\* the document is a shared resource: between the selection and the accept
\* (during the gateway call, or while the suggestion is presented) somebody
\* types at the start of the document that the request or the pending
\* suggestion targets
ExternalEdit(d) ==
    /\ externalEdits < MaxExternalEdits
    /\ ~MidFlight
    /\ \/ currentSuggestion # NoSugg /\ currentSuggestion.doc = d
       \/ \E t \in TaskIds : Running(t) /\ tasks[t].kind = "request" /\ tasks[t].doc = d
    /\ text' = [text EXCEPT ![d] = TypedText \o text[d]]
    /\ externalEdits' = externalEdits + 1
    /\ UNCHANGED <<disk, editors, activeEditor, diffView, fallbackShown, manager,
                   config, tasks, timers, history, decorationType>>

\* TextEditorDecorationType.dispose() in the host: the type is removed and
\* with it every decoration of that type, on every editor
DisposeDecorationType(eds) == [i \in 1..Len(eds) |-> [eds[i] EXCEPT !.decor = NoDecor]]

\* suggestionManager.ts:227-230 dispose(), called by deactivate
\* (extension.ts:177-181) and by whoever calls it again: clearDecorations()
\* uses the decoration type when a suggestion is pending, then the type is
\* disposed; neither looks at whether the type was disposed before.  The
\* extension is deactivated while no command is running.
Dispose ==
    /\ decorationType.disposeCalls < MaxDisposals
    /\ \A t \in TaskIds : ~Running(t)
    /\ editors' = DisposeDecorationType(ClearDecorations(editors, currentSuggestion))
    /\ decorationType' =
          [disposed |-> TRUE,
           disposeCalls |-> decorationType.disposeCalls + 1,
           usedAfterDispose |-> decorationType.usedAfterDispose
                                   \/ decorationType.disposed]
    /\ UNCHANGED <<text, disk, activeEditor, diffView, fallbackShown, manager,
                   config, tasks, timers, history, externalEdits>>

\* the steps of the extension
Program ==
    \/ HandleAICommand
    \/ \E t \in TaskIds : GatewayFails(t)
    \/ \E t \in TaskIds : GatewayCancelled(t)
    \/ \E t \in TaskIds : ShowSuggestion(t)
    \/ \E t \in TaskIds : ShowDiffDone(t)
    \/ HighlightTimer
    \/ AcceptSuggestion
    \/ \E t \in TaskIds : AcceptClosed(t)
    \/ \E t \in TaskIds : AcceptShown(t)
    \/ \E t \in TaskIds : AcceptEdited(t)
    \/ \E t \in TaskIds : AcceptSaved(t)
    \/ \E t \in TaskIds : AcceptCatchShown(t)
    \/ RejectSuggestion
    \/ \E t \in TaskIds : RejectClosed(t)
    \/ \E t \in TaskIds : RejectShown(t)

\* the extension and a user who closes editors
Next == Program \/ \E e \in 1..Len(editors) : UserCloseEditor(e)

Spec == Init /\ [][Next]_vars

\* the extension and documents that are edited from outside
NextShared == Program \/ \E d \in Docs : ExternalEdit(d)

SpecShared == Init /\ [][NextShared]_vars

\* the extension up to its deactivation, and dispose() called at and after it
NextDeactivate == (~decorationType.disposed /\ Program) \/ Dispose

SpecDeactivate == Init /\ [][NextDeactivate]_vars


\* ================================================================ claims
Edits == 1..Len(edits)
Sids == 1..Len(presented)
\* a task of the given kind took a step, or was started, in this step
Stepped(kind) ==
    \/ \E t \in TaskIds : tasks[t].kind = kind /\ tasks'[t] # tasks[t]
    \/ Len(tasks') > Len(tasks) /\ tasks'[Len(tasks')].kind = kind

\* new is old with exactly the span r = [s, e) replaced by code
ExactlyReplaced(old, new, r, code) ==
    LET s == r[1]
        e == r[2]
        n == Len(code)
    IN /\ Len(new) = Len(old) - (e - s) + n
       /\ \A k \in 1..s : new[k] = old[k]
       /\ \A k \in 1..n : new[s + k] = code[k]
       /\ \A k \in (e + 1)..Len(old) : new[k - (e - s) + n] = old[k]

\* C1: when an accept's edit step succeeds on a document in which the
\* suggestion's range is still valid, the document's text afterwards is the
\* text before with exactly that range replaced by the replacement text, and
\* no other document changes.
C1_AcceptReplacesExactlyRange ==
    [][\A t \in TaskIds :
          ( /\ tasks[t].kind = "accept" /\ tasks[t].pc = "edit"
            /\ tasks'[t].pc \in {"save", "done"}
            /\ tasks[t].range[2] <= Len(text[tasks[t].doc]) )
          => /\ ExactlyReplaced(text[tasks[t].doc], text'[tasks[t].doc],
                                tasks[t].range, tasks[t].newCode)
             /\ \A d \in Docs \ {tasks[t].doc} : text'[d] = text[d]]_vars

\* an accept replaced a valid range, succeeded, and the text is the result
C1_Witness ==
    \E i \in Edits :
        /\ edits[i].range[2] <= Len(edits[i].before)
        /\ edits[i].range = <<1, 3>> /\ edits[i].newCode = <<8, 9>>
        /\ tasks[edits[i].task].pc = "done"
        /\ tasks[edits[i].task].failedAt = ""
        /\ text[edits[i].doc] = <<1, 8, 9>>

\* C2: when an acceptSuggestion call has returned, on any path, no
\* suggestion was pending and the flag was false at its return.
C2_AcceptAlwaysLeavesIdle ==
    \A t \in TaskIds :
        (tasks[t].kind = "accept" /\ tasks[t].pc = "done") => ~tasks[t].pendingAtReturn

\* C3: the replacement edit of one presented suggestion is applied at most
\* once.
C3_AtMostOneApply ==
    \A i, j \in Edits : edits[i].sid = edits[j].sid => i = j

\* C4: an acceptSuggestion call that started while an earlier one was still
\* suspended applies no edit and performs no save.
C4_ReentrantAcceptIgnored ==
    /\ \A i \in Edits : "accept" \notin tasks[edits[i].task].overlap
    /\ \A i \in 1..Len(saves) : "accept" \notin tasks[saves[i].task].overlap

\* C5: a presentSuggestion or rejectSuggestion call made while an accept or
\* a reject is suspended is turned down: the present does not store its
\* suggestion and the reject does not enter its sequence.
C5_NoCallInterleaved ==
    /\ \A s \in Sids : ~presented[s].midFlight
    /\ \A t \in TaskIds :
          (tasks[t].kind = "reject" /\ tasks[t].overlap # {}) => ~Running(t)

\* C6: whenever an accept applies the edit, the range still holds the text
\* that was selected when the suggestion was requested.
C6_RangeNotStale ==
    \A i \in Edits :
        GetText(edits[i].before, edits[i].range) = presented[edits[i].sid].selText

\* C7: as long as only present calls have run since the last one started (no
\* cleanup by accept or reject), the pending suggestion exists and holds the
\* document, range, replacement and explanation of the most recently started
\* present call, however the calls overlap.
C7_LatestPresentIsPending ==
    (Len(presented) > 0 /\ ~cleanedSince) =>
        /\ currentSuggestion # NoSugg
        /\ currentSuggestion.sid = Len(presented)
        /\ currentSuggestion.doc = presented[Len(presented)].doc
        /\ currentSuggestion.range = presented[Len(presented)].range
        /\ currentSuggestion.newCode = presented[Len(presented)].newCode
        /\ currentSuggestion.explanation = presented[Len(presented)].explanation

\* two present calls overlapped, the first one returned last, and the second
\* one's different suggestion is the pending one
C7_Witness ==
    /\ Len(presented) = 2 /\ ~cleanedSince
    /\ presented[1].newCode # presented[2].newCode
    /\ \A t \in TaskIds : ~Running(t)
    /\ Len(timers) = 2 /\ timers[1].sid = 2 /\ timers[2].sid = 1
    /\ currentSuggestion.sid = 2

\* C8: once every present call has returned and every deferred highlight
\* has run, no editor carries a highlight other than that of the latest
\* suggestion: every highlight is on the latest suggestion's document, over
\* its range, so none of a superseded suggestion is left.
C8_NoSupersededHighlight ==
    (timers = <<>> /\ \A t \in TaskIds : ~Running(t)) =>
    \A e \in 1..Len(editors) :
        editors[e].decor # NoDecor =>
            /\ editors[e].doc = presented[Len(presented)].doc
            /\ editors[e].decor.range = presented[Len(presented)].range

\* C9: every edit applied by an acceptSuggestion call is the suggestion of
\* the most recent present call that had started when the accept call
\* started, with that call's document, range and replacement: a superseded
\* suggestion is never applied by a later accept.
C9_OnlyLatestApplied ==
    \A i \in Edits :
        /\ edits[i].sid = tasks[edits[i].task].startSid
        /\ edits[i].doc = presented[edits[i].sid].doc
        /\ edits[i].range = presented[edits[i].sid].range
        /\ edits[i].newCode = presented[edits[i].sid].newCode

\* A then B with another range were presented, then accept applied B
C9_Witness ==
    /\ Len(presented) = 2
    /\ presented[1].doc = presented[2].doc
    /\ presented[1].range # presented[2].range
    /\ \E i \in Edits : edits[i].sid = 2 /\ tasks[edits[i].task].startSid = 2

\* C10: no step of a rejectSuggestion call, in any state, changes the text
\* of any document.
C10_RejectNeverEditsText ==
    [][Stepped("reject") => text' = text]_vars

\* a reject that was invoked while an accept was suspended ran to its end
\* after that accept had applied its edit
C10_Witness ==
    \E t \in TaskIds :
        /\ tasks[t].kind = "reject" /\ tasks[t].pc = "done"
        /\ tasks[t].msgs = <<"info:rejected">>
        /\ "accept" \in tasks[t].overlap
        /\ edits # <<>>

\* C11: when a rejectSuggestion call that found a suggestion has returned, on
\* any path (the host failing to close the views or to reopen the document
\* included), no suggestion was pending and the flag was false at its return,
\* and no open editor carried the decoration of the rejected suggestion.
C11_RejectLeavesIdleAndUndecorated ==
    \A t \in TaskIds :
        (tasks[t].kind = "reject" /\ tasks[t].pc = "done" /\ tasks[t].sid # 0) =>
            /\ ~tasks[t].pendingAtReturn
            /\ ~tasks[t].decorAtReturn

\* the part of C11 about the manager alone: pending cleared and flag false
C11_RejectLeavesIdle ==
    [][\A t \in TaskIds :
          (tasks[t].kind = "reject" /\ tasks[t].pc # "done" /\ tasks'[t].pc = "done")
          => (currentSuggestion' = NoSugg /\ flag' = FALSE)]_vars

\* C12: a step that starts acceptSuggestion while no suggestion is pending
\* ends the call at once with the warning as its only message and changes
\* nothing else: no text or disk content, no editor closed or opened, no
\* view, no timer, no edit or save recorded, no other call; the manager
\* stays idle with the flag false.
C12_IdleAcceptOnlyWarns ==
    [][( /\ Len(tasks') = Len(tasks) + 1
         /\ tasks'[Len(tasks')].kind = "accept"
         /\ currentSuggestion = NoSugg )
       => /\ tasks'[Len(tasks')].pc = "done"
          /\ tasks'[Len(tasks')].msgs = <<"warning:No suggestion to accept">>
          /\ SubSeq(tasks', 1, Len(tasks)) = tasks
          /\ UNCHANGED <<text, disk, editors, activeEditor, diffView, fallbackShown,
                         timers, presented, edits, saves>>
          /\ currentSuggestion' = NoSugg
          /\ flag' = FALSE]_vars

\* accept was invoked with nothing pending after a suggestion had been
\* presented and rejected, and returned with the warning
C12_Witness ==
    \E t \in TaskIds :
        /\ tasks[t].kind = "accept" /\ tasks[t].pc = "done" /\ tasks[t].sid = 0
        /\ tasks[t].msgs = <<"warning:No suggestion to accept">>
        /\ Len(presented) = 1 /\ cleanedSince
        /\ currentSuggestion = NoSugg /\ ~flag
        /\ edits = <<>> /\ saves = <<>>

\* C13: an accept does not depend on the editor that showed the document
\* when the suggestion was presented.  It fails for a closed editor only
\* when the editor it reopened itself has been closed again, and every edit
\* applied by an accept that started with no editor showing the document is
\* the presented one: same document, same range, same replacement, the text
\* after being the text before with the range replaced.
C13_ClosedSurfaceIsReopened ==
    /\ \A t \in TaskIds :
          tasks[t].failedAt = "editorClosed" => ~editors[tasks[t].newEditor].open
    /\ \A i \in Edits :
          ~tasks[edits[i].task].surfaceOpenAtStart =>
              /\ edits[i].doc = presented[edits[i].sid].doc
              /\ edits[i].range = presented[edits[i].sid].range
              /\ edits[i].newCode = presented[edits[i].sid].newCode
              /\ edits[i].after = ReplaceRange(edits[i].before, edits[i].range,
                                               edits[i].newCode)

\* the user closed the document's editor, then accept ran alone, reopened
\* the document in a new editor, applied the edit and reported success
C13_Witness ==
    \E i \in Edits :
        LET t == edits[i].task IN
        /\ ~tasks[t].surfaceOpenAtStart
        /\ tasks[t].overlap = {} /\ tasks[t].pc = "done"
        /\ tasks[t].msgs = <<"info:accepted">>
        /\ ~editors[tasks[t].editor].open
        /\ tasks[t].newEditor # tasks[t].editor
        /\ editors[tasks[t].newEditor].open
        /\ edits[i].range = <<1, 3>>
        /\ text[edits[i].doc] = <<1, 8, 9>>

\* a request whose diff view failed to open: the output channel was shown
DiffFailed(t) ==
    /\ tasks[t].kind = "request" /\ tasks[t].pc = "done"
    /\ tasks[t].msgs # <<>> /\ tasks[t].msgs[1] = "output:AI Suggestion"

\* the suggestion of a request whose diff failed is the pending one, with
\* its replacement and explanation and the flag true, until it is superseded
\* or cleaned up, and every edit applied for it writes its replacement
FallbackSuggestionPending ==
    \A t \in TaskIds :
        DiffFailed(t) =>
            /\ (tasks[t].sid = Len(presented) /\ ~cleanedSince) =>
                  /\ currentSuggestion # NoSugg
                  /\ currentSuggestion.sid = tasks[t].sid
                  /\ currentSuggestion.newCode = tasks[t].newCode
                  /\ currentSuggestion.explanation = tasks[t].explanation
                  /\ flag
            /\ \A i \in Edits :
                  edits[i].sid = tasks[t].sid =>
                      /\ edits[i].newCode = tasks[t].newCode
                      /\ edits[i].after = ReplaceRange(edits[i].before, tasks[t].range,
                                                       tasks[t].newCode)

\* C14: the step that ends a presentation either opens the diff view or,
\* when opening it failed, shows the replacement in the output channel; in
\* both cases the call completes with the prompt and the completion message
\* and leaves the stored suggestion and the flag as they were.  After a
\* failed diff the suggestion is pending with its explanation and
\* replacement and the flag true, and an accept applies that replacement.
C14_DiffFailureFallsBack ==
    [][/\ \A t \in TaskIds :
            ( /\ t <= Len(tasks) /\ tasks[t].kind = "request"
              /\ tasks[t].pc = "diff" /\ tasks'[t].pc = "done" )
            => /\ \/ diffView' = tasks[t].sid
                  \/ /\ fallbackShown' = tasks[t].newCode
                     /\ diffView' = diffView
                     /\ DiffFailed(t)'
               /\ tasks'[t].msgs[Len(tasks'[t].msgs)] = "info:complete"
               /\ currentSuggestion' = currentSuggestion /\ flag' = flag
       /\ FallbackSuggestionPending']_vars

\* the diff view failed to open, the output channel shows the replacement,
\* and an accept that ran afterwards applied that replacement
C14_Witness ==
    \E t \in TaskIds : \E i \in Edits :
        /\ DiffFailed(t)
        /\ edits[i].sid = tasks[t].sid
        /\ fallbackShown = tasks[t].newCode /\ diffView = 0
        /\ edits[i].newCode = <<8, 9>> /\ edits[i].range = <<1, 3>>
        /\ text[edits[i].doc] = <<1, 8, 9>>
        /\ tasks[edits[i].task].msgs = <<"info:accepted">>

\* the accept call t has applied no edit and no save of it was carried out
\* or invoked
NothingWrittenBy(t) ==
    /\ \A i \in Edits : edits[i].task # t
    /\ \A i \in 1..Len(saves) : saves[i].task # t
    /\ tasks[t].saveResult = ""
    /\ tasks[t].pc \in {"catch", "done"}

\* C15: the step on which the host reports the edit as failed changes no
\* text and no disk content and surfaces the error; the accept whose edit
\* was reported failed has the error as its only message, has applied no
\* edit, and never invokes save.
C15_EditFailureAborts ==
    [][/\ \A t \in TaskIds :
            ( /\ tasks[t].kind = "accept" /\ tasks[t].pc = "edit"
              /\ tasks'[t].failedAt = "edit" )
            => /\ text' = text /\ disk' = disk
               /\ edits' = edits /\ saves' = saves
       /\ \A t \in 1..Len(tasks') :
            tasks'[t].failedAt = "edit" =>
                /\ tasks'[t].msgs = <<"error:Error applying suggestion">>
                /\ NothingWrittenBy(t)']_vars

\* with autoSave on, the host reported the edit as failed: the accept has
\* returned with the error, text and disk are as they were
C15_Witness ==
    \E t \in TaskIds :
        /\ tasks[t].kind = "accept" /\ tasks[t].failedAt = "edit"
        /\ tasks[t].pc = "done" /\ autoSave
        /\ tasks[t].msgs = <<"error:Error applying suggestion">>
        /\ text = InitText /\ disk = InitText
        /\ edits = <<>> /\ saves = <<>>

\* C16: the accept whose target document could not be opened has the error
\* as its only message, has applied no edit, and no save of it was invoked;
\* the step on which opening fails changes no text and no disk content.
C16_UnresolvableDocumentAborts ==
    [][/\ \A t \in TaskIds :
            ( /\ tasks[t].kind = "accept" /\ tasks[t].pc = "show"
              /\ tasks'[t].failedAt = "open" )
            => /\ text' = text /\ disk' = disk
               /\ edits' = edits /\ saves' = saves
       /\ \A t \in 1..Len(tasks') :
            tasks'[t].failedAt = "open" =>
                /\ tasks'[t].msgs = <<"error:Error applying suggestion">>
                /\ NothingWrittenBy(t)']_vars

\* with autoSave on, the document could not be opened: the accept has
\* returned with the error, text and disk are as they were
C16_Witness ==
    \E t \in TaskIds :
        /\ tasks[t].kind = "accept" /\ tasks[t].failedAt = "open"
        /\ tasks[t].pc = "done" /\ autoSave
        /\ tasks[t].msgs = <<"error:Error applying suggestion">>
        /\ text = InitText /\ disk = InitText
        /\ edits = <<>> /\ saves = <<>>

\* the accept call t has applied its edit
HasEdited(t) == \E i \in Edits : edits[i].task = t

\* C17: an accept whose edit succeeded and whose save then failed (save
\* returned false, or threw) has reported the failure: its message is the
\* error; and the edit it applied is still recorded as applied.
C17_SaveFailureReported ==
    \A t \in TaskIds :
        ( /\ tasks[t].kind = "accept" /\ tasks[t].pc = "done"
          /\ tasks[t].saveResult \in {"notSaved", "threw"} )
        => /\ tasks[t].msgs = <<"error:Error applying suggestion">>
           /\ HasEdited(t)

\* the half of C17 that the code keeps: a save that threw is reported, and
\* no step of a failed save changes any text
C17_ThrownSaveReported ==
    [][\A t \in TaskIds :
          (tasks[t].kind = "accept" /\ tasks[t].pc = "save" /\ tasks'[t].pc # "save")
          => /\ text' = text
             /\ (tasks'[t].saveResult = "threw") =>
                   (tasks'[t].msgs = <<"error:Error applying suggestion">>)]_vars

\* C18: save is invoked by an accept only with autoSave on and only after
\* that accept has applied its edit; an accept that has applied its edit
\* invokes save exactly when autoSave is on, and with autoSave off it never
\* does; every save carried out belongs to an accept that had edited.
C18_SaveIffAutoSaveAfterEdit ==
    /\ \A t \in TaskIds :
          LET invoked == tasks[t].pc = "save" \/ tasks[t].saveResult # "" IN
          /\ invoked => (autoSave /\ HasEdited(t))
          /\ HasEdited(t) => (invoked <=> autoSave)
    /\ \A i \in 1..Len(saves) : autoSave /\ HasEdited(saves[i].task)

\* with autoSave on an accept applied its edit and then saved the document
C18_Witness ==
    \E t \in TaskIds :
        /\ autoSave /\ HasEdited(t) /\ tasks[t].pc = "done"
        /\ tasks[t].saveResult = "saved"
        /\ disk[tasks[t].doc] = text[tasks[t].doc]
        /\ text[tasks[t].doc] # InitText[tasks[t].doc]

\* with autoSave off an accept applied its edit and returned without a save
C18_WitnessOff ==
    \E t \in TaskIds :
        /\ ~autoSave /\ HasEdited(t) /\ tasks[t].pc = "done"
        /\ tasks[t].msgs = <<"info:accepted">>
        /\ saves = <<>> /\ disk = InitText
        /\ text[tasks[t].doc] # InitText[tasks[t].doc]

\* C19: every acceptSuggestion call that has returned, and every
\* rejectSuggestion call that found a suggestion and has returned, has shown
\* exactly one message to the user.
C19_ExactlyOneNotification ==
    \A t \in TaskIds :
        ( /\ tasks[t].pc = "done"
          /\ \/ tasks[t].kind = "accept"
             \/ tasks[t].kind = "reject" /\ tasks[t].sid # 0 )
        => Len(tasks[t].msgs) = 1

\* the half of C19 that the code keeps: exactly one message per accept
C19_AcceptNotifiesOnce ==
    \A t \in TaskIds :
        (tasks[t].kind = "accept" /\ tasks[t].pc = "done") => Len(tasks[t].msgs) = 1

\* C20: in every reachable state the flag is true exactly when a pending
\* suggestion is recorded.
C20_FlagIffPending ==
    flag <=> (currentSuggestion # NoSugg)

\* an accept is suspended on a host call after another call has cleaned up:
\* nothing is pending and the flag is false; and a present stored a new
\* suggestion during that suspension
C20_Witness ==
    /\ \E t \in TaskIds : tasks[t].kind = "accept" /\ Running(t)
    /\ \E u \in TaskIds : tasks[u].kind \in {"accept", "reject"}
                           /\ tasks[u].pc = "done" /\ tasks[u].sid # 0
    /\ cleanedSince /\ ~flag /\ currentSuggestion = NoSugg

\* C21: dispose leaves no decoration on any editor and the decoration type
\* disposed; a second dispose changes nothing of that, whether or not a
\* suggestion is pending, and no dispose call operates on a decoration type
\* that was already disposed.
C21_DisposeIdempotent ==
    /\ decorationType.disposed =>
          \A e \in 1..Len(editors) : editors[e].decor = NoDecor
    /\ ~decorationType.usedAfterDispose

\* the half of C21 that the code keeps: a dispose clears every decoration
\* and disposes the type, and a second dispose leaves editors, manager and
\* the disposed state as they are
C21_DisposeClearsAndRepeats ==
    [][(decorationType'.disposeCalls > decorationType.disposeCalls) =>
          /\ decorationType'.disposed
          /\ \A e \in 1..Len(editors') : editors'[e].decor = NoDecor
          /\ decorationType.disposed =>
                (editors' = editors /\ currentSuggestion' = currentSuggestion
                 /\ flag' = flag)]_vars

\* C22: whenever no suggestion is pending, no editor carries a suggestion
\* highlight; in particular no deferred highlight lands after its suggestion
\* was accepted or rejected.
C22_NoHighlightWhenIdle ==
    currentSuggestion = NoSugg =>
        \A e \in 1..Len(editors) : editors[e].decor = NoDecor

\* C25: once every call has returned, an open diff view is the diff view of
\* the pending suggestion: none is open when nothing is pending, and none
\* shows a suggestion that was accepted, rejected or superseded.
C25_DiffViewOfPendingOnly ==
    (diffView # 0 /\ \A t \in TaskIds : ~Running(t)) =>
        /\ currentSuggestion # NoSugg
        /\ diffView = currentSuggestion.sid

\* C29: no suggestion has both been reported as rejected and had its
\* replacement edit applied.
C29_RejectedNeverApplied ==
    \A t \in TaskIds : \A i \in Edits :
        ~ ( /\ tasks[t].kind = "reject"
            /\ tasks[t].msgs = <<"info:rejected">>
            /\ edits[i].sid = tasks[t].sid )

C24_EditOnlyAfterResolution ==
    [][/\ \A t \in TaskIds :
            ( /\ tasks[t].kind = "accept" /\ tasks'[t] # tasks[t]
              /\ text' # text )
            => /\ tasks[t].pc = "edit"
               /\ tasks[t].newEditor \in 1..Len(editors)
               /\ editors[tasks[t].newEditor].open
               /\ editors[tasks[t].newEditor].doc = tasks[t].doc
       /\ \A t \in 1..Len(tasks') :
            tasks'[t].failedAt \in {"close", "open", "show"} =>
                \A i \in 1..Len(edits') : edits'[i].task # t]_vars

\* the document was opened but could not be shown: the accept has returned
\* with the error and no edit was issued
C24_Witness ==
    \E t \in TaskIds :
        /\ tasks[t].kind = "accept" /\ tasks[t].failedAt = "show"
        /\ tasks[t].pc = "done"
        /\ edits = <<>> /\ text = InitText

\* what a presentation that ran to its end has shown
PresentedMsgs ==
    { <<"info:prompt", "info:complete">>,
      <<"output:AI Suggestion", "info:prompt", "info:complete">> }

\* C26: a step puts a highlight on an editor only when showInlineDecorations
\* is on, and then on an open editor that shows the document of the
\* highlighted suggestion, over that suggestion's range.  With the setting
\* off no highlight is ever deferred or applied.  A presentation that ran to
\* its end recorded its suggestion and reported completion without an error,
\* whatever the setting and the visible editors.
C26_HighlightOnlyWhenEnabledAndVisible ==
    [][/\ \A e \in 1..Len(editors') :
            ( /\ editors'[e].decor # NoDecor
              /\ (e > Len(editors) \/ editors'[e].decor # editors[e].decor) )
            => /\ showInlineDecorations
               /\ e <= Len(editors) /\ editors[e].open
               /\ e = FindVisible(editors, presented[editors'[e].decor.sid].doc)
               /\ editors'[e].decor.range = presented[editors'[e].decor.sid].range
       /\ ~showInlineDecorations' =>
            /\ timers' = <<>>
            /\ \A e \in 1..Len(editors') : editors'[e].decor = NoDecor
       /\ \A t \in 1..Len(tasks') :
            ( /\ tasks'[t].kind = "request" /\ tasks'[t].pc = "done"
              /\ tasks'[t].sid # 0 )
            => /\ tasks'[t].msgs \in PresentedMsgs
               /\ presented'[tasks'[t].sid].newCode = tasks'[t].newCode
               /\ presented'[tasks'[t].sid].range = tasks'[t].range]_vars

\* the setting is on, but the user closed the document's editor before the
\* deferred highlight ran: no editor shows the document, nothing is
\* highlighted, and the suggestion is pending, its presentation complete
C26_Witness ==
    /\ showInlineDecorations /\ timers = <<>>
    /\ Len(tasks) = 1 /\ tasks[1].kind = "request" /\ tasks[1].pc = "done"
    /\ tasks[1].sid = 1 /\ tasks[1].msgs \in PresentedMsgs
    /\ currentSuggestion # NoSugg /\ currentSuggestion.sid = 1 /\ flag
    /\ FindVisible(editors, currentSuggestion.doc) = 0
    /\ \A e \in 1..Len(editors) : editors[e].decor = NoDecor

\* the setting is on and the highlight landed on the visible editor
C26_WitnessApplied ==
    /\ showInlineDecorations /\ timers = <<>>
    /\ \E e \in 1..Len(editors) :
          /\ editors[e].open /\ editors[e].decor # NoDecor
          /\ editors[e].decor.range = <<1, 3>>
          /\ currentSuggestion # NoSugg /\ currentSuggestion.range = <<1, 3>>
          /\ editors[e].doc = currentSuggestion.doc

\* C27: a pending suggestion is removed or changed only by a step on which
\* an accept or a reject returns, or on which a present stores its own
\* suggestion; no timer, no user action on editors and no other step of a
\* call touches it.
C27_PendingUntilActedUpon ==
    [][(currentSuggestion # NoSugg /\ currentSuggestion' # currentSuggestion) =>
          \/ \E t \in TaskIds :
                /\ tasks[t].kind \in {"accept", "reject"}
                /\ tasks[t].pc # "done" /\ tasks'[t].pc = "done"
                /\ currentSuggestion' = NoSugg
          \/ /\ Len(presented') = Len(presented) + 1
             /\ currentSuggestion' # NoSugg
             /\ currentSuggestion'.sid = Len(presented')]_vars

\* the presentation has returned, its deferred highlight has run, the user
\* has closed the document's editor, and the suggestion is still the pending
\* one with its range and replacement
C27_Witness ==
    /\ showInlineDecorations /\ timers = <<>>
    /\ \A t \in TaskIds : tasks[t].pc = "done" /\ tasks[t].kind = "request"
    /\ Len(presented) = 1 /\ ~cleanedSince
    /\ currentSuggestion # NoSugg /\ currentSuggestion.sid = 1
    /\ currentSuggestion.range = presented[1].range
    /\ currentSuggestion.newCode = presented[1].newCode
    /\ ~editors[currentSuggestion.editor].open
    /\ diffView = 1

\* C28: the step on which a request ends at the gateway (the call failed, or
\* the user cancelled) stores nothing and leaves the pending suggestion, the
\* flag, every editor's decoration, the deferred highlights and the views as
\* they were; a request that reported the gateway error, or ended without a
\* message, never presented a suggestion; and every stored suggestion
\* belongs to a request whose gateway call returned a result.
C28_NoSuggestionWithoutResult ==
    [][/\ \A t \in TaskIds :
            ( /\ tasks[t].kind = "request" /\ tasks[t].pc = "gateway"
              /\ tasks'[t].pc = "done" )
            => /\ UNCHANGED <<currentSuggestion, flag, editors, timers, presented,
                              diffView, fallbackShown, text, disk>>
               /\ tasks'[t].sid = 0
       /\ \A t \in 1..Len(tasks') :
            ( /\ tasks'[t].kind = "request" /\ tasks'[t].pc = "done"
              /\ tasks'[t].msgs \notin PresentedMsgs )
            => tasks'[t].sid = 0
       /\ \A s \in 1..Len(presented') :
            \E t \in 1..Len(tasks') :
                /\ tasks'[t].kind = "request" /\ tasks'[t].sid = s
                /\ tasks'[t].newCode = ResultCode(GatewayResult(tasks'[t].selText),
                                                  tasks'[t].selText)
                /\ "error:AI Error" \notin { tasks'[t].msgs[k] :
                                                k \in 1..Len(tasks'[t].msgs) }]_vars

\* while a suggestion was pending and highlighted, a second request failed
\* at the gateway: the error was reported, the first suggestion is still the
\* pending one and still highlighted
C28_Witness ==
    \E t \in TaskIds :
        /\ tasks[t].kind = "request" /\ tasks[t].pc = "done"
        /\ tasks[t].msgs = <<"error:AI Error">> /\ tasks[t].sid = 0
        /\ Len(presented) = 1
        /\ currentSuggestion # NoSugg /\ currentSuggestion.sid = 1 /\ flag
        /\ \E e \in 1..Len(editors) :
              editors[e].decor # NoDecor /\ editors[e].decor.sid = 1

\* C30: no step of an accept changes the text or the saved content of a
\* document other than the one of the suggestion it accepted; the document
\* an accept works on is the one its suggestion was presented for, and every
\* edit and every save carried out is on that document.
C30_AcceptTouchesTargetOnly ==
    [][/\ \A t \in TaskIds :
            (tasks[t].kind = "accept" /\ tasks'[t] # tasks[t]) =>
                \A d \in Docs \ {tasks[t].doc} :
                    text'[d] = text[d] /\ disk'[d] = disk[d]
       /\ \A t \in TaskIds :
            (tasks[t].kind = "accept" /\ tasks[t].sid # 0) =>
                tasks[t].doc = presented[tasks[t].sid].doc
       /\ \A i \in 1..Len(edits') :
            edits'[i].doc = presented'[edits'[i].sid].doc
       /\ \A i \in 1..Len(saves') :
            saves'[i].doc = tasks'[saves'[i].task].doc]_vars

\* the suggestion was requested on document B while the command had started
\* with the editor of A in front; accept changed and saved B, and A is
\* untouched in the editor and on disk
C30_Witness ==
    /\ \E i \in Edits : edits[i].doc = "B" /\ tasks[edits[i].task].pc = "done"
    /\ \E i \in 1..Len(saves) : saves[i].doc = "B"
    /\ text["B"] # InitText["B"] /\ disk["B"] = text["B"]
    /\ text["A"] = InitText["A"] /\ disk["A"] = InitText["A"]

====
